---- MODULE Spec2Model ----
(***************************************************************************)
(* Model of tclip (src/main.go): one run of main().  Strings are sequences *)
(* of tokens; a token is a plain piece of text or an HTML entity.  The     *)
(* clipboard, the notifier and the translation services are external: the  *)
(* outcome of every call to them is a nondeterministic choice.             *)
(***************************************************************************)
EXTENDS Integers, Sequences, FiniteSets, TLC

\* ---------------------------------------------------------------- bounds
MaxLen == 2

\* ------------------------------------------------------------- constants
hasPrimary == TRUE

Tokens == {"a", "&amp;"}
Langs == {"en", "ko", "e!"}
ValidLangs == {"en", "ko", "es"}
DetLangs == {"en", "ko", "es"}

Strs == UNION {[1..k -> Tokens] : k \in 0..MaxLen}

Sep == <<"\n---\n">>

\* language.Parse: a code parses or it does not
ParseOk(code) == code \in ValidLangs

\* html.UnescapeString, token by token: an entity becomes its character
UnescapeToken(t) == IF t = "&amp;" THEN "&" ELSE t

UnescapeString(s) == [i \in DOMAIN s |-> UnescapeToken(s[i])]

NilGT == [nmtClient |-> FALSE, llmClient |-> FALSE]

\* createClientWithKey's two successful results
NewGT(llm) == [nmtClient |-> ~llm, llmClient |-> llm]

\* gt.useLLM()
GTuseLLM(gt) == gt.llmClient

VARIABLES
    pc,        \* position in main
    known, learn, useLLM, concat, list,  \* flags
    Primary,   \* clipboard.Primary
    clip,      \* clipboard content
    text,      \* main's text
    gTrans,    \* main's gTrans (NilGT before construction)
    deferred,  \* defer gTrans.close() registered
    trans,     \* main's trans
    det,       \* main's outer det
    detIn,     \* det declared inside the else block (line 171)
    exitCode,  \* -1 while running
    trace      \* calls made to the external collaborators, in order

vars == <<pc, known, learn, useLLM, concat, list, Primary, clip, text,
          gTrans, deferred, trans, det, detIn, exitCode, trace>>

flags == <<known, learn, useLLM, concat, list>>

Ev(op, lang, arg, ret, ok) ==
    [op |-> op, lang |-> lang, arg |-> arg, ret |-> ret, ok |-> ok,
     primary |-> Primary]

Log(e) == trace' = Append(trace, e)

Init ==
    /\ pc = "primary"
    /\ known \in Langs
    /\ learn \in Langs
    /\ useLLM \in BOOLEAN
    /\ concat \in BOOLEAN
    /\ list \in BOOLEAN
    /\ Primary = FALSE
    /\ clip \in Strs
    /\ text = <<>>
    /\ gTrans = NilGT
    /\ deferred = FALSE
    /\ trans = <<>>
    /\ det = <<>>
    /\ detIn = <<>>
    /\ exitCode = -1
    /\ trace = <<>>

\* variant of LLMTarget: the learn code is passed instead
LLMTargetLearn(k, l) == l

\* the target of the LLM-mode translate call (line 164)
LLMTarget(k, l) == k

\* variant of ClassicalTarget: the two branches exchanged
ClassicalTargetSwapped(d, k, l) == IF d = k THEN k ELSE l

\* the target of the classical-mode translate call (lines 178-185)
ClassicalTarget(d, k, l) == IF d = k THEN l ELSE k

\* variant of Concat: the translation first, the original after it
ConcatAfter(c, t, tr) == IF c THEN tr \o Sep \o t ELSE tr

\* lines 197-199
Concat(c, t, tr) == IF c THEN t \o Sep \o tr ELSE tr

\* variant of IsEmpty: the empty-text test is missing
IsEmptyNever(t) == FALSE

\* line 140
IsEmpty(t) == t = <<>>

\* the hint of the log.Fatalf in main (lines 148-152)
AuthHint(llm) ==
    IF llm
    THEN <<"\nMake sure you have set the ", "GOOGLE_TRANSLATE_APIKEY",
           " environment variable">>
    ELSE <<"\nMake sure you have set the ", "GEMINI_APIKEY",
           " environment variable">>

\* the results gt.translate can return: [ok, ret]
translate(gt, targetLang) ==
    IF ~ParseOk(targetLang) THEN {[ok |-> FALSE, ret |-> <<>>]}
    ELSE IF gt.nmtClient \/ gt.llmClient
         THEN {[ok |-> FALSE, ret |-> <<>>]}
              \cup {[ok |-> TRUE, ret |-> UnescapeString(r)] : r \in Strs}
         ELSE {[ok |-> TRUE, ret |-> <<>>]}

\* the results gt.detect can return: [ok, ret]
detect(gt) ==
    {[ok |-> FALSE, ret |-> ""]} \cup {[ok |-> TRUE, ret |-> d] : d \in DetLangs}

\* the results gt.SupportedLanguages can return (TRUE: no error)
SupportedLanguages(gt, targetLang) ==
    IF ~ParseOk(targetLang) THEN {FALSE}
    ELSE IF gt.nmtClient THEN {FALSE, TRUE}
    ELSE {FALSE}

\* gt.close(): one Close of whichever client is set
close(gt) ==
    (IF gt.nmtClient THEN <<Ev("close", "nmt", <<>>, <<>>, TRUE)>> ELSE <<>>)
    \o (IF gt.llmClient THEN <<Ev("close", "llm", <<>>, <<>>, TRUE)>> ELSE <<>>)

\* lines 131-133
EnablePrimary ==
    /\ pc = "primary"
    /\ IF hasPrimary
       THEN /\ Primary' = TRUE
            /\ Log(Ev("setPrimary", "", <<"true">>, <<>>, TRUE))
       ELSE UNCHANGED <<Primary, trace>>
    /\ pc' = "read"
    /\ UNCHANGED <<flags, clip, text, gTrans, deferred, trans, det, detIn,
                   exitCode>>

\* lines 134-144
ReadAll ==
    /\ pc = "read"
    /\ \E ok \in BOOLEAN :
         IF ~ok
         THEN /\ text' = <<>>
              /\ trace' = trace \o
                   << Ev("readAll", "", <<>>, <<>>, FALSE),
                      Ev("notify", "", <<"Error reading the clipboard">>,
                         <<"read error">>, FALSE) >>
              /\ pc' = "return"
         ELSE /\ text' = clip
              /\ IF IsEmpty(clip)
                 THEN /\ trace' = trace \o
                           << Ev("readAll", "", <<>>, clip, TRUE),
                              Ev("notify", "", <<"Error">>,
                                 <<"No text selected">>, FALSE) >>
                      /\ pc' = "return"
                 ELSE /\ Log(Ev("readAll", "", <<>>, clip, TRUE))
                      /\ pc' = "create"
    /\ UNCHANGED <<flags, Primary, clip, gTrans, deferred, trans, det, detIn,
                   exitCode>>

\* lines 146-154 with createClientWithKey (lines 30-53)
CreateClient ==
    /\ pc = "create"
    /\ \E ok \in BOOLEAN :
         IF ok
         THEN /\ gTrans' = NewGT(useLLM)
              /\ deferred' = TRUE
              /\ Log(Ev("create", "", <<>>, <<>>, TRUE))
              /\ pc' = "created"
              /\ UNCHANGED exitCode
         ELSE /\ UNCHANGED <<gTrans, deferred>>
              /\ pc' = "done"
              /\ exitCode' = 1
              /\ trace' = trace \o
                   << Ev("create", "", <<>>, <<>>, FALSE),
                      Ev("fatal", "",
                         IF useLLM THEN <<"client error">>
                         ELSE <<"client error">> \o AuthHint(useLLM),
                         <<>>, FALSE) >>
    /\ UNCHANGED <<flags, Primary, clip, text, trans, det, detIn>>

\* variant of ListLanguages: the return after the listing is missing
ListLanguagesNoReturn ==
    /\ pc = "created"
    /\ IF list
       THEN \E ok \in SupportedLanguages(gTrans, known) :
                 Log(Ev("list", known, <<>>, <<>>, ok))
       ELSE UNCHANGED trace
    /\ pc' = "translate"
    /\ UNCHANGED <<flags, Primary, clip, text, gTrans, deferred, trans, det,
                   detIn, exitCode>>

\* lines 156-159
ListLanguages ==
    /\ pc = "created"
    /\ IF list
       THEN /\ \E ok \in SupportedLanguages(gTrans, known) :
                 Log(Ev("list", known, <<>>, <<>>, ok))
            /\ pc' = "return"
       ELSE /\ UNCHANGED trace
            /\ pc' = "translate"
    /\ UNCHANGED <<flags, Primary, clip, text, gTrans, deferred, trans, det,
                   detIn, exitCode>>

\* lines 163-169
TranslateLLM ==
    /\ pc = "translate"
    /\ GTuseLLM(gTrans)
    /\ LET target == LLMTarget(known, learn) IN
       \E r \in translate(gTrans, target) :
         /\ trans' = r.ret
         /\ IF r.ok
            THEN /\ det' = <<"with LLM">>
                 /\ Log(Ev("translate", target, text, r.ret, TRUE))
                 /\ pc' = "restore"
                 /\ UNCHANGED exitCode
            ELSE /\ UNCHANGED det
                 /\ pc' = "done"
                 /\ exitCode' = 1
                 /\ trace' = trace \o
                      << Ev("translate", target, text, r.ret, FALSE),
                         Ev("notify", "", <<"Error">>,
                            <<"Unable to translate the language">>, FALSE),
                         Ev("fatal", "", <<"translate error">>, <<>>, FALSE) >>
    /\ UNCHANGED <<flags, Primary, clip, text, gTrans, deferred, detIn>>

\* lines 171-176
Detect ==
    /\ pc = "translate"
    /\ ~GTuseLLM(gTrans)
    /\ \E r \in detect(gTrans) :
         IF r.ok
         THEN /\ detIn' = <<r.ret>>
              /\ Log(Ev("detect", "", text, <<r.ret>>, TRUE))
              /\ pc' = "nmt"
              /\ UNCHANGED exitCode
         ELSE /\ detIn' = <<>>
              /\ pc' = "done"
              /\ exitCode' = 1
              /\ trace' = trace \o
                   << Ev("detect", "", text, <<>>, FALSE),
                      Ev("notify", "", <<"Error">>,
                         <<"Unable to detect the language">>, FALSE),
                      Ev("fatal", "", <<"detect error">>, <<>>, FALSE) >>
    /\ UNCHANGED <<flags, Primary, clip, text, gTrans, deferred, trans, det>>

\* lines 178-191
TranslateNMT ==
    /\ pc = "nmt"
    /\ LET target == ClassicalTarget(detIn[1], known, learn) IN
       \E r \in translate(gTrans, target) :
         /\ trans' = r.ret
         /\ IF r.ok
            THEN /\ detIn' = <<"from ">> \o detIn
                 /\ Log(Ev("translate", target, text, r.ret, TRUE))
                 /\ pc' = "restore"
                 /\ UNCHANGED exitCode
            ELSE /\ UNCHANGED detIn
                 /\ pc' = "done"
                 /\ exitCode' = 1
                 /\ trace' = trace \o
                      << Ev("translate", target, text, r.ret, FALSE),
                         Ev("notify", "", <<"Error">>,
                            <<"Unable to translate the language">>, FALSE),
                         Ev("fatal", "", <<"translate error">>, <<>>, FALSE) >>
    /\ UNCHANGED <<flags, Primary, clip, text, gTrans, deferred, det>>

\* variant of DisablePrimary: the primary selection is left enabled
DisablePrimaryMissing ==
    /\ pc = "restore"
    /\ pc' = "concat"
    /\ UNCHANGED <<flags, Primary, clip, text, gTrans, deferred, trans, det,
                   detIn, exitCode, trace>>

\* lines 193-196 with setPrimary
DisablePrimary ==
    /\ pc = "restore"
    /\ IF hasPrimary
       THEN /\ Primary' = FALSE
            /\ Log(Ev("setPrimary", "", <<"false">>, <<>>, TRUE))
       ELSE UNCHANGED <<Primary, trace>>
    /\ pc' = "concat"
    /\ UNCHANGED <<flags, clip, text, gTrans, deferred, trans, det, detIn,
                   exitCode>>

\* lines 197-199
AppendOriginal ==
    /\ pc = "concat"
    /\ trans' = Concat(concat, text, trans)
    /\ pc' = "write"
    /\ UNCHANGED <<flags, Primary, clip, text, gTrans, deferred, det, detIn,
                   exitCode, trace>>

\* lines 200-202
WriteAll ==
    /\ pc = "write"
    /\ \E ok \in BOOLEAN :
         IF ok
         THEN /\ clip' = trans
              /\ Log(Ev("writeAll", "", trans, <<>>, TRUE))
              /\ pc' = "notify"
              /\ UNCHANGED exitCode
         ELSE /\ UNCHANGED clip
              /\ pc' = "done"
              /\ exitCode' = 1
              /\ trace' = trace \o
                   << Ev("writeAll", "", trans, <<>>, FALSE),
                      Ev("fatal", "", <<"write error">>, <<>>, FALSE) >>
    /\ UNCHANGED <<flags, Primary, text, gTrans, deferred, trans, det, detIn>>

\* line 203
FinalNotify ==
    /\ pc = "notify"
    /\ Log(Ev("notify", "", <<"Translating ">> \o det \o <<": ">> \o text,
              trans, TRUE))
    /\ pc' = "return"
    /\ UNCHANGED <<flags, Primary, clip, text, gTrans, deferred, trans, det,
                   detIn, exitCode>>

\* main returns (lines 137, 142, 158, 204): the deferred close runs, exit 0
Return ==
    /\ pc = "return"
    /\ trace' = trace \o (IF deferred THEN close(gTrans) ELSE <<>>)
    /\ exitCode' = 0
    /\ pc' = "done"
    /\ UNCHANGED <<flags, Primary, clip, text, gTrans, deferred, trans, det,
                   detIn>>

Next ==
    \/ EnablePrimary
    \/ ReadAll
    \/ CreateClient
    \/ ListLanguages
    \/ TranslateLLM
    \/ Detect
    \/ TranslateNMT
    \/ DisablePrimary
    \/ AppendOriginal
    \/ WriteAll
    \/ FinalNotify
    \/ Return

Spec == Init /\ [][Next]_vars

\* ------------------------------------------------------------ properties

\* positions in the trace of the calls of one kind
Idx(op) == {i \in DOMAIN trace : trace[i].op = op}

\* the final summary notification (line 203), as opposed to the error ones
IsSummary(e) == e.op = "notify" /\ Len(e.arg) > 0 /\ e.arg[1] = "Translating "

Summaries == {i \in DOMAIN trace : IsSummary(trace[i])}

Mentions(msg, word) == \E k \in DOMAIN msg : msg[k] = word

\* the read returned the empty string or failed
ReadEmptyOrFailed ==
    \E i \in Idx("readAll") : ~trace[i].ok \/ trace[i].ret = <<>>

\* C1: in classical mode without append, every clipboard write follows one
\* successful detect and one successful translate; the translate target is
\* learn when the detected code equals known and known otherwise, and the
\* text written is the text that translate call returned.
C1_ClassicalDirection ==
    (~useLLM /\ ~concat) =>
      \A w \in Idx("writeAll") :
        \E d \in Idx("detect"), t \in Idx("translate") :
          /\ d < t /\ t < w
          /\ trace[d].ok /\ trace[t].ok
          /\ Idx("translate") = {t}
          /\ trace[t].arg = text
          /\ trace[t].lang = (IF trace[d].ret = <<known>> THEN learn ELSE known)
          /\ trace[w].arg = trace[t].ret

C1_Witness ==
    /\ ~useLLM /\ ~concat /\ known # learn
    /\ \E d \in Idx("detect"), t \in Idx("translate"), w \in Idx("writeAll") :
         /\ trace[d].ret = <<known>>
         /\ trace[t].lang = learn
         /\ trace[w].ok
         /\ trace[w].arg = trace[t].ret
         /\ Mentions(trace[w].arg, "&")

\* C2: when the clipboard read returns the empty string or fails, no backend
\* is constructed, no detect, translate or list call is made, the clipboard
\* is not written, at most one notification is pushed, and the run ends with
\* exactly one notification and exit code 0.
C2_EmptyClipboardIsTerminal ==
    ReadEmptyOrFailed =>
      /\ gTrans = NilGT /\ ~deferred
      /\ \A i \in DOMAIN trace :
           trace[i].op \notin {"create", "detect", "translate", "list",
                               "writeAll", "close", "fatal"}
      /\ Cardinality(Idx("notify")) = 1
      /\ pc \in {"return", "done"}
      /\ pc = "done" => exitCode = 0

C2_Witness ==
    /\ pc = "done" /\ exitCode = 0
    /\ \E i \in Idx("readAll") : trace[i].ok /\ trace[i].ret = <<>>
    /\ Cardinality(Idx("notify")) = 1

\* C3: with list requested, translate and detect are never called and the
\* clipboard is never written; once the backend is constructed the run ends
\* with exit code 0, after the list call.
C3_ListSkipsTranslation ==
    list =>
      /\ Idx("translate") = {} /\ Idx("detect") = {} /\ Idx("writeAll") = {}
      /\ (pc = "done" /\ deferred) =>
           /\ exitCode = 0
           /\ Cardinality(Idx("list")) = 1

C3_Witness ==
    /\ list /\ pc = "done" /\ deferred /\ exitCode = 0
    /\ \E i \in Idx("list") : trace[i].ok

\* C4: every clipboard write carries, with append, the text read from the
\* clipboard, then the separator, then the translation returned by the
\* translate call, and without append the translation alone.
C4_AppendPrefixesOriginal ==
    \A w \in Idx("writeAll") :
      \E r \in Idx("readAll"), t \in Idx("translate") :
        /\ r < t /\ t < w /\ trace[t].ok
        /\ trace[w].arg = (IF concat
                           THEN trace[r].ret \o <<"\n---\n">> \o trace[t].ret
                           ELSE trace[t].ret)

C4_Witness ==
    /\ concat
    /\ \E t \in Idx("translate"), w \in Idx("writeAll") :
         /\ trace[w].ok
         /\ trace[t].ret # <<>>
         /\ trace[t].ret # text
         /\ trace[w].arg = text \o <<"\n---\n">> \o trace[t].ret

\* C5: in LLM mode detect is never called, at most one translate call is
\* made, its target is known and its text the clipboard text, and the text
\* written is built from the clipboard text and that call's result only:
\* nothing in the calls or in the text written depends on learn.
C5_LLMTargetsKnown ==
    useLLM =>
      /\ Idx("detect") = {}
      /\ Cardinality(Idx("translate")) <= 1
      /\ \A t \in Idx("translate") :
           trace[t].lang = known /\ trace[t].arg = text
      /\ \A i \in Idx("list") : trace[i].lang = known
      /\ \A w \in Idx("writeAll") : \E t \in Idx("translate") :
           trace[w].arg = (IF concat
                           THEN text \o <<"\n---\n">> \o trace[t].ret
                           ELSE trace[t].ret)

C5_Witness ==
    /\ useLLM /\ learn # known
    /\ \E t \in Idx("translate"), w \in Idx("writeAll") :
         trace[t].ok /\ trace[t].lang = known /\ trace[w].ok

\* C6: when the run has ended and the backend had been constructed, close
\* has been called exactly once.
C6_CloseOnEveryExit ==
    (pc = "done" /\ deferred) => Cardinality(Idx("close")) = 1

\* C7: a failed backend construction is followed by a fatal message that
\* names GEMINI_APIKEY in LLM mode and GOOGLE_TRANSLATE_APIKEY otherwise.
C7_AuthHintNamesRequestedMode ==
    \A i \in Idx("create") :
      (~trace[i].ok /\ i < Len(trace)) =>
        /\ trace[i + 1].op = "fatal"
        /\ Mentions(trace[i + 1].arg,
                    IF useLLM THEN "GEMINI_APIKEY"
                              ELSE "GOOGLE_TRANSLATE_APIKEY")

\* C8: a translate, detect or list call that returned an error is followed
\* by a notification and then by the fatal exit, with a non-zero exit code.
C8_BackendErrorsAreFatal ==
    pc = "done" =>
      \A i \in Idx("translate") \cup Idx("detect") \cup Idx("list") :
        ~trace[i].ok =>
          /\ exitCode # 0
          /\ \E n \in Idx("notify"), f \in Idx("fatal") : i < n /\ n < f

\* the place of a call in the order of the steps of a run
Rank(e) ==
    CASE e.op = "setPrimary" /\ e.arg = <<"true">> -> 0
      [] e.op = "readAll" -> 1
      [] e.op = "create" -> 2
      [] e.op = "list" -> 3
      [] e.op = "detect" -> 3
      [] e.op = "translate" -> 4
      [] e.op = "setPrimary" /\ e.arg = <<"false">> -> 5
      [] e.op = "writeAll" -> 6
      [] IsSummary(e) -> 7
      [] OTHER -> -1

Steps == {i \in DOMAIN trace : Rank(trace[i]) >= 0}

\* C9: the steps occur in the order read, backend construction, translate,
\* primary selection disabled, write, summary, none of them twice; the
\* clipboard is written at most once, after a successful translate and with
\* the primary selection disabled; the summary follows a successful write;
\* and after a failed step only the error notification, the fatal exit or
\* the release of the backend follow.
C9_StepOrder ==
    /\ \A i, j \in Steps : i < j => Rank(trace[i]) < Rank(trace[j])
    /\ Cardinality(Idx("writeAll")) <= 1
    /\ \A w \in Idx("writeAll") :
         /\ ~trace[w].primary
         /\ \E t \in Idx("translate") : t < w /\ trace[t].ok
         /\ hasPrimary => \E p \in Idx("setPrimary") :
                            p < w /\ trace[p].arg = <<"false">>
    /\ \A n \in Summaries :
         \E w \in Idx("writeAll") : w < n /\ trace[w].ok
    /\ \A i \in Steps \ Summaries :
         ~trace[i].ok =>
           \A j \in DOMAIN trace :
             j > i => /\ j \notin Steps
                      /\ trace[j].op \in {"notify", "fatal", "close"}

C9_Witness ==
    /\ pc = "done" /\ exitCode = 0
    /\ \E t \in Idx("translate"), w \in Idx("writeAll"), n \in Summaries :
         t < w /\ w < n /\ trace[w].ok /\ ~trace[w].primary

\* C10: the summary notification has the title "Translating ", the
\* detection label, ": " and the clipboard text, and its body is the text
\* written to the clipboard; the label is the LLM marker in LLM mode and
\* contains the detected language code in classical mode.
C10_SummaryCarriesLabel ==
    \A n \in Summaries :
      LET title == trace[n].arg
          label == SubSeq(title, 2, Len(title) - Len(text) - 1)
      IN /\ Len(title) >= Len(text) + 2
         /\ SubSeq(title, Len(title) - Len(text), Len(title))
              = <<": ">> \o text
         /\ \E w \in Idx("writeAll") : trace[n].ret = trace[w].arg
         /\ IF useLLM
            THEN label = <<"with LLM">>
            ELSE \E d \in Idx("detect") : Mentions(label, trace[d].ret[1])

====
